---- MODULE Spec2Model ----
(***************************************************************************)
(* PrintGuard printer utilities: the polling orchestrator and the          *)
(* alert-driven suspend of printguard/utils/printer_utils.py, and the      *)
(* PrusaLink protocol client of                                            *)
(* printguard/utils/printer_services/prusalink.py.                         *)
(*                                                                         *)
(* Three specifications share the variables:                               *)
(*   Spec / FairSpec  the polling orchestrator on one asyncio event loop   *)
(*   SuspendSpec      suspend_print_job                                    *)
(*   ClientSpec       the PrusaLinkPyClient read methods                   *)
(***************************************************************************)
EXTENDS Integers, FiniteSets, Sequences, TLC

\* ------------------------------------------------------------------ bounds
\* polling tasks that may be created in one run
MaxTasks == 2
\* poll attempts all loops together may make in one run
MaxPolls == 2

Tasks == 1..MaxTasks
Cams == {"camA", "camB"}

VARIABLES
    \* camera-state store: camera UUID -> its printer_config
    config,
    \* task registry: camera UUID -> PollingTask(task, stop_event), or NoEntry
    registry,
    \* number of add_polling_task calls made
    addCalls,
    \* per camera, how the last start_printer_state_polling call ended
    startOutcome,
    \* per task: position of poll_printer_state_func
    pc,
    \* per task: the camera it was started for, its client class, and the
    \* asyncio.Event its loop observes
    taskCam, taskClient, taskEvent,
    \* asyncio.Event objects, by identity: is_set()
    stopSet,
    \* per task: client.get_printer_state() calls made, successful
    \* sse_update_printer_state pushes, cycles that raised, interval sleeps entered
    polls, pushes, fails, sleeps,
    \* suspend_print_job: the last call
    susp,
    \* PrusaLinkPyClient: the upstream responses and the last call
    printerResp, statusResp, jobResp, call

orchVars == <<config, registry, addCalls, startOutcome, pc, taskCam, taskClient,
              taskEvent, stopSet, polls, pushes, fails, sleeps>>
clientVars == <<printerResp, statusResp, jobResp, call>>
vars == <<orchVars, susp, clientVars>>

\* ------------------------------------------------- printer type and factory
\* the members of PrinterType that CLIENT_FACTORY names
PrinterTypeMembers == {"octoprint", "prusalinkpy"}

\* printer_type strings a stored config may hold; "" stands for a missing or
\* empty printer_type, "klipper" for a string that is no member's value
StoredTypes == {"", "octoprint", "prusalinkpy", "klipper"}

NoConfig == [present |-> FALSE, printer_type |-> ""]
ConfigValues == {NoConfig} \cup {[present |-> TRUE, printer_type |-> s] : s \in StoredTypes}

\* get_printer_config: the stored config, or None (NoConfig)
get_printer_config(cfg, c) == cfg[c]

\* CLIENT_FACTORY.get(printer_type)
CLIENT_FACTORY(type) ==
    CASE type = "octoprint" -> "OctoPrintClient"
      [] type = "prusalinkpy" -> "PrusaLinkPyClient"
      [] OTHER -> "None"

\* PrinterType(printer_type_str) if printer_type_str else PrinterType.OCTOPRINT:
\* the by-value lookup of an Enum raises ValueError for a value of no member
ResolvePrinterType(s) ==
    IF s = "" THEN [raised |-> FALSE, type |-> "octoprint"]
    ELSE IF s \in PrinterTypeMembers THEN [raised |-> FALSE, type |-> s]
    ELSE [raised |-> TRUE, type |-> "ValueError"]

\* ------------------------------------------------------- task registry
NoEntry == [task |-> 0, stop_event |-> 0]

\* a PollingTask registered with an Event other than the one handed to the loop
PollingTask_OtherEvent(t, e) == [task |-> t, stop_event |-> IF e = 1 THEN 2 ELSE 1]

\* PollingTask(task=task, stop_event=stop_event)
PollingTask(t, e) == [task |-> t, stop_event |-> e]

\* add_polling_task(camera_uuid, polling_task): the registry maps a camera
\* UUID to one task + stop signal
add_polling_task(reg, c, entry) == [reg EXCEPT ![c] = entry]

\* ------------------------------------------------ polling orchestrator
Created == {t \in Tasks : pc[t] # "absent"}
Active == {t \in Tasks : pc[t] \in {"top", "polling", "pushing", "sleeping"}}

\* client.get_printer_state() is a plain (blocking) call made inside the
\* coroutine: while it is in flight the event loop's one thread is inside it,
\* and no other coroutine step runs
LoopFree == \A t \in Tasks : pc[t] # "polling"

RECURSIVE SumTo(_, _)
SumTo(f, n) == IF n = 0 THEN 0 ELSE f[n] + SumTo(f, n - 1)
\* poll attempts made so far, over all loops
TotalPolls == SumTo(polls, MaxTasks)

\* how start_printer_state_polling ends for a stored config
StartOutcome(cfg) ==
    IF ~cfg.present THEN "returned_no_config"
    ELSE LET r == ResolvePrinterType(cfg.printer_type) IN
         IF r.raised THEN "raised_ValueError"
         ELSE IF CLIENT_FACTORY(r.type) = "None" THEN "returned_unsupported"
         ELSE "started"

\* the client class start_printer_state_polling instantiates
StartClient(cfg) == CLIENT_FACTORY(ResolvePrinterType(cfg.printer_type).type)

start_printer_state_polling(c) ==
    /\ LoopFree
    /\ LET cfg == get_printer_config(config, c)
           o == StartOutcome(cfg)
           t == Cardinality(Created) + 1
       IN
       /\ startOutcome' = [startOutcome EXCEPT ![c] = o]
       /\ IF o = "started"
          THEN /\ t \in Tasks
               /\ pc' = [pc EXCEPT ![t] = "top"]
               /\ taskCam' = [taskCam EXCEPT ![t] = c]
               /\ taskClient' = [taskClient EXCEPT ![t] = StartClient(cfg)]
               /\ taskEvent' = [taskEvent EXCEPT ![t] = t]
               /\ registry' = add_polling_task(registry, c, PollingTask(t, t))
               /\ addCalls' = addCalls + 1
          ELSE UNCHANGED <<pc, taskCam, taskClient, taskEvent, registry, addCalls>>
    /\ UNCHANGED <<config, stopSet, polls, pushes, fails, sleeps, susp, clientVars>>

\* a loop that never reads its stop signal
LoopCondition_Always(t) == TRUE

\* while not stop_event.is_set()
LoopCondition(t) == ~stopSet[taskEvent[t]]

\* an error that escapes the loop body and ends the task
AfterRaise_Ends == "done"

\* where the loop goes after the except clause has caught an error
AfterRaise == "sleeping"

\* top of the loop: the stop signal is read; the loop either ends or calls
\* client.get_printer_state()
LoopTop(t) ==
    /\ pc[t] = "top"
    /\ LoopFree
    /\ IF LoopCondition(t)
       THEN /\ TotalPolls < MaxPolls
            /\ pc' = [pc EXCEPT ![t] = "polling"]
            /\ polls' = [polls EXCEPT ![t] = @ + 1]
       ELSE /\ pc' = [pc EXCEPT ![t] = "done"]
            /\ UNCHANGED polls
    /\ UNCHANGED <<config, registry, addCalls, startOutcome, taskCam, taskClient,
                   taskEvent, stopSet, pushes, fails, sleeps, susp, clientVars>>

\* client.get_printer_state() returns a state or raises
PollReturn(t, outcome) ==
    /\ pc[t] = "polling"
    /\ IF outcome = "ok"
       THEN /\ pc' = [pc EXCEPT ![t] = "pushing"]
            /\ UNCHANGED <<fails, sleeps>>
       ELSE /\ pc' = [pc EXCEPT ![t] = AfterRaise]
            /\ fails' = [fails EXCEPT ![t] = @ + 1]
            /\ sleeps' = [sleeps EXCEPT ![t] = @ + 1]
    /\ UNCHANGED <<config, registry, addCalls, startOutcome, taskCam, taskClient,
                   taskEvent, stopSet, polls, pushes, susp, clientVars>>

\* await sse_update_printer_state(current_printer_state) returns or raises;
\* either way the loop goes on to await asyncio.sleep(interval)
PushReturn(t, outcome) ==
    /\ pc[t] = "pushing"
    /\ LoopFree
    /\ IF outcome = "ok"
       THEN /\ pc' = [pc EXCEPT ![t] = "sleeping"]
            /\ pushes' = [pushes EXCEPT ![t] = @ + 1]
            /\ UNCHANGED fails
       ELSE /\ pc' = [pc EXCEPT ![t] = AfterRaise]
            /\ fails' = [fails EXCEPT ![t] = @ + 1]
            /\ UNCHANGED pushes
    /\ sleeps' = [sleeps EXCEPT ![t] = @ + 1]
    /\ UNCHANGED <<config, registry, addCalls, startOutcome, taskCam, taskClient,
                   taskEvent, stopSet, polls, susp, clientVars>>

\* await asyncio.sleep(interval) returns: back to the top of the loop
SleepReturn(t) ==
    /\ pc[t] = "sleeping"
    /\ LoopFree
    /\ pc' = [pc EXCEPT ![t] = "top"]
    /\ UNCHANGED <<config, registry, addCalls, startOutcome, taskCam, taskClient,
                   taskEvent, stopSet, polls, pushes, fails, sleeps, susp, clientVars>>

\* the holder of the registry entry sets the entry's stop signal
StopPolling(c) ==
    /\ registry[c] # NoEntry
    /\ ~stopSet[registry[c].stop_event]
    /\ stopSet' = [stopSet EXCEPT ![registry[c].stop_event] = TRUE]
    /\ UNCHANGED <<config, registry, addCalls, startOutcome, pc, taskCam, taskClient,
                   taskEvent, polls, pushes, fails, sleeps, susp, clientVars>>

Outcomes == {"ok", "raise"}

LoopStep(t) ==
    \/ LoopTop(t)
    \/ \E o \in Outcomes : PollReturn(t, o)
    \/ \E o \in Outcomes : PushReturn(t, o)
    \/ SleepReturn(t)

IdleSusp ==
    [called |-> FALSE, result |-> "none", job_state |-> "not_fetched", cancel_calls |-> 0,
     pause_calls |-> 0, camera |-> "none", action |-> "none", cmd |-> "none"]
IdleCall == [method |-> "none", result |-> <<>>]
IdleResp == [status_code |-> 0]

OrchInit ==
    /\ config \in [Cams -> ConfigValues]
    /\ registry = [c \in Cams |-> NoEntry]
    /\ addCalls = 0
    /\ startOutcome = [c \in Cams |-> "not_called"]
    /\ pc = [t \in Tasks |-> "absent"]
    /\ taskCam = [t \in Tasks |-> "none"]
    /\ taskClient = [t \in Tasks |-> "None"]
    /\ taskEvent = [t \in Tasks |-> 0]
    /\ stopSet = [t \in Tasks |-> FALSE]
    /\ polls = [t \in Tasks |-> 0]
    /\ pushes = [t \in Tasks |-> 0]
    /\ fails = [t \in Tasks |-> 0]
    /\ sleeps = [t \in Tasks |-> 0]

Init ==
    /\ OrchInit
    /\ susp = IdleSusp
    /\ printerResp = IdleResp
    /\ statusResp = IdleResp
    /\ jobResp = IdleResp
    /\ call = IdleCall

\* ------------------------------------------------------- PrusaLink client
\* the status on which get_printer_temperatures reports "no data"
HTTP_CONFLICT == 409

\* status codes an upstream request may end with
StatusCodes == {200, 409, 500}

\* requests.Response.raise_for_status(): raises HTTPError on 4xx and 5xx
RaiseForStatus(code) == code >= 400 /\ code < 600

Components == {"tool0", "bed", "chamber"}
Degrees == {0, 60}

\* an entry of the "temperature" object: no such key, a value that is not a
\* dict holding 'actual', or a reading
RawAbsent == [kind |-> "absent", actual |-> 0, target |-> 0]
RawOther == [kind |-> "other", actual |-> 0, target |-> 0]
RawReadings == {[kind |-> "reading", actual |-> a, target |-> g] : a, g \in Degrees}
RawValues == {RawAbsent, RawOther} \cup RawReadings

EmptyTemps == [k \in Components |-> RawAbsent]

\* responses of GET /api/printer: the body counts only on a success status
PrinterResponses ==
    {[status_code |-> c, has_temperature |-> FALSE, temperature |-> EmptyTemps] :
        c \in StatusCodes}
    \cup {[status_code |-> 200, has_temperature |-> TRUE, temperature |-> m] :
            m \in [Components -> RawValues]}

\* responses of GET /api/v1/status: the 'job' key is missing, null or an
\* object; printer.state is absent or a state string
StatusResponses ==
    {[status_code |-> c, job |-> j, state |-> st] :
        c \in {200, 500}, j \in {"missing", "null", "object"},
        st \in {"absent", "PRINTING", "IDLE"}}

\* responses of GET /api/v1/job
JobResponses == {[status_code |-> c, has_job |-> h] : c \in {200, 500}, h \in BOOLEAN}

\* Optional values
None == <<>>
Some(v) == <<v>>

\* get_job_info: both requests must succeed and the status must hold a 'job'
\* object; the state is status['printer']['state'], None when absent
get_job_info(status, job) ==
    IF RaiseForStatus(status.status_code) THEN [raised |-> TRUE, value |-> None]
    ELSE IF RaiseForStatus(job.status_code) THEN [raised |-> TRUE, value |-> None]
    ELSE IF status.job # "object" THEN [raised |-> TRUE, value |-> None]
    ELSE [raised |-> FALSE,
          value |-> [state |-> IF status.state = "absent" THEN None ELSE Some(status.state),
                     has_job |-> job.has_job]]

\* readings[key] = TemperatureReading(**value) for the dict entries holding 'actual'
Readings(temp_data) ==
    [k \in Components |-> IF temp_data[k].kind = "reading" THEN temp_data[k] ELSE RawAbsent]

\* get_printer_temperatures
get_printer_temperatures(resp) ==
    IF resp.status_code = HTTP_CONFLICT THEN [raised |-> FALSE, temps |-> EmptyTemps]
    ELSE IF RaiseForStatus(resp.status_code) THEN [raised |-> TRUE, temps |-> EmptyTemps]
    ELSE LET temp_data == IF resp.has_temperature THEN resp.temperature ELSE EmptyTemps IN
         IF temp_data = EmptyTemps THEN [raised |-> FALSE, temps |-> EmptyTemps]
         ELSE [raised |-> FALSE, temps |-> Readings(temp_data)]

ZeroTemps == [nozzle_actual |-> 0, nozzle_target |-> 0, bed_actual |-> 0, bed_target |-> 0]

\* entries that default to the other component's reading
SimpleTemps_Swapped(temps) ==
    [nozzle_actual |-> temps["bed"].actual, nozzle_target |-> temps["bed"].target,
     bed_actual |-> temps["tool0"].actual, bed_target |-> temps["tool0"].target]

\* the mapping nozzle_and_bed_temps builds from a temperature mapping
SimpleTemps(temps) ==
    IF temps = EmptyTemps THEN ZeroTemps
    ELSE LET tool0 == temps["tool0"]
             bed == temps["bed"]
         IN [nozzle_actual |-> IF tool0.kind = "reading" THEN tool0.actual ELSE 0,
             nozzle_target |-> IF tool0.kind = "reading" THEN tool0.target ELSE 0,
             bed_actual |-> IF bed.kind = "reading" THEN bed.actual ELSE 0,
             bed_target |-> IF bed.kind = "reading" THEN bed.target ELSE 0]

\* nozzle_and_bed_temps
nozzle_and_bed_temps(resp) ==
    LET r == get_printer_temperatures(resp) IN
    IF r.raised THEN [raised |-> TRUE, value |-> ZeroTemps]
    ELSE [raised |-> FALSE, value |-> SimpleTemps(r.temps)]

\* PrinterTemperatures(...): None for a component without a reading
PrinterTemperatures(temps) ==
    LET tool0 == temps["tool0"]
        bed == temps["bed"]
    IN [nozzle_actual |-> IF tool0.kind = "reading" THEN Some(tool0.actual) ELSE None,
        nozzle_target |-> IF tool0.kind = "reading" THEN Some(tool0.target) ELSE None,
        bed_actual |-> IF bed.kind = "reading" THEN Some(bed.actual) ELSE None,
        bed_target |-> IF bed.kind = "reading" THEN Some(bed.target) ELSE None]

\* get_printer_state: the temperatures are read outside the try block, the
\* job info inside it
get_printer_state(printer, status, job) ==
    LET t == get_printer_temperatures(printer) IN
    IF t.raised THEN [raised |-> TRUE, jobInfoResponse |-> None, temperatureReading |-> None]
    ELSE LET ji == get_job_info(status, job) IN
         [raised |-> FALSE,
          jobInfoResponse |-> IF ji.raised THEN None ELSE Some(ji.value),
          temperatureReading |-> Some(PrinterTemperatures(t.temps))]

Call_get_printer_temperatures ==
    /\ call' = [method |-> "get_printer_temperatures",
                result |-> get_printer_temperatures(printerResp)]
    /\ UNCHANGED <<orchVars, susp, printerResp, statusResp, jobResp>>

Call_nozzle_and_bed_temps ==
    /\ call' = [method |-> "nozzle_and_bed_temps", result |-> nozzle_and_bed_temps(printerResp)]
    /\ UNCHANGED <<orchVars, susp, printerResp, statusResp, jobResp>>

Call_get_job_info ==
    /\ call' = [method |-> "get_job_info", result |-> get_job_info(statusResp, jobResp)]
    /\ UNCHANGED <<orchVars, susp, printerResp, statusResp, jobResp>>

Call_get_printer_state ==
    /\ call' = [method |-> "get_printer_state",
                result |-> get_printer_state(printerResp, statusResp, jobResp)]
    /\ UNCHANGED <<orchVars, susp, printerResp, statusResp, jobResp>>

ClientInit ==
    /\ OrchInit
    /\ config = [c \in Cams |-> NoConfig]
    /\ susp = IdleSusp
    /\ printerResp \in PrinterResponses
    /\ statusResp \in StatusResponses
    /\ jobResp \in JobResponses
    /\ call = IdleCall

ClientNext ==
    \/ Call_get_printer_temperatures
    \/ Call_nozzle_and_bed_temps
    \/ Call_get_job_info
    \/ Call_get_printer_state

ClientSpec == ClientInit /\ [][ClientNext]_vars

Next ==
    \/ \E c \in Cams : start_printer_state_polling(c)
    \/ \E t \in Tasks : LoopTop(t)
    \/ \E t \in Tasks, o \in Outcomes : PollReturn(t, o)
    \/ \E t \in Tasks, o \in Outcomes : PushReturn(t, o)
    \/ \E t \in Tasks : SleepReturn(t)
    \/ \E c \in Cams : StopPolling(c)

Spec == Init /\ [][Next]_vars

\* both cameras hold a config that starts: one PrusaLink, one legacy config
\* without a printer_type
FairInit ==
    /\ Init
    /\ config["camA"] = [present |-> TRUE, printer_type |-> "prusalinkpy"]
    /\ config["camB"] = [present |-> TRUE, printer_type |-> ""]

\* asyncio runs every ready coroutine step in FIFO order, and the poll, the
\* push and the sleep are taken to return
FairSpec ==
    /\ FairInit
    /\ [][Next]_vars
    /\ \A t \in Tasks : SF_vars(LoopStep(t))

\* ------------------------------------------------- alert-driven suspend
\* AlertAction members; "NOTIFY" stands for any member other than the two
\* that suspend_print_job matches
AlertActions == {"CANCEL_PRINT", "PAUSE_PRINT", "NOTIFY"}

\* job states a client may report
JobStates == {"Printing", "PRINTING", "printing", "Operational", "Paused"}

\* what client.get_job_info() does: raises, or returns a job with a state
JobFetches == {"raise"} \cup JobStates

\* a printing test that also accepts other casings
PrintingStates_AnyCase == {"Printing", "PRINTING", "printing"}

\* job_info.state not in ["Printing", "PRINTING"]
PrintingStates == {"Printing", "PRINTING"}

SuspendResult(result, state, cancels, pauses) ==
    [called |-> TRUE, result |-> result, job_state |-> state,
     cancel_calls |-> cancels, pause_calls |-> pauses]

\* match action: cancel_job(), pause_job() or nothing; an exception raised by
\* the command is caught and the call returns False
SuspendDispatch(action, cmd, state) ==
    CASE action = "CANCEL_PRINT" ->
            SuspendResult(IF cmd = "ok" THEN "True" ELSE "False", state, 1, 0)
      [] action = "PAUSE_PRINT" ->
            SuspendResult(IF cmd = "ok" THEN "True" ELSE "False", state, 0, 1)
      [] OTHER -> SuspendResult("True", state, 0, 0)

\* suspend_print_job against a stored config, for what the client's
\* get_job_info (fetch) and cancel_job / pause_job (cmd) do when called
SuspendRun(cfg, action, fetch, cmd) ==
    IF ~cfg.present THEN SuspendResult("False", "not_fetched", 0, 0)
    ELSE LET r == ResolvePrinterType(cfg.printer_type) IN
         IF r.raised THEN SuspendResult("raised_ValueError", "not_fetched", 0, 0)
         ELSE IF CLIENT_FACTORY(r.type) = "None"
              THEN SuspendResult("False", "not_fetched", 0, 0)
         ELSE IF fetch = "raise" THEN SuspendResult("False", "fetch_raised", 0, 0)
         ELSE IF fetch \notin PrintingStates THEN SuspendResult("True", fetch, 0, 0)
         ELSE SuspendDispatch(action, cmd, fetch)

suspend_print_job(c, action, fetch, cmd) ==
    /\ susp' = SuspendRun(get_printer_config(config, c), action, fetch, cmd)
                    @@ [camera |-> c, action |-> action, cmd |-> cmd]
    /\ UNCHANGED <<orchVars, clientVars>>

SuspendNext ==
    \E c \in Cams, a \in AlertActions, f \in JobFetches, k \in Outcomes :
        suspend_print_job(c, a, f, k)

SuspendSpec == Init /\ [][SuspendNext]_vars

\* ======================================================== orchestrator claims
StopSeen(t) == t \in Created /\ stopSet[taskEvent[t]]
InFlight(t) == IF pc[t] \in {"polling", "pushing"} THEN 1 ELSE 0
TasksOf(c) == {t \in Created : taskCam[t] = c}

\* C4: start_printer_state_polling aborts on a setup-time error without
\* throwing: with no printer config, or with a printer_type that is no
\* registered type, the call returns normally, creates no task and registers
\* nothing; a config whose printer_type is missing starts an OctoPrint client.
C4_SetupErrorsNeverThrow ==
    \A c \in Cams :
        startOutcome[c] # "not_called" =>
            /\ (~config[c].present \/ config[c].printer_type \notin PrinterTypeMembers \cup {""})
                  => /\ startOutcome[c] \in {"returned_no_config", "returned_unsupported"}
                     /\ TasksOf(c) = {}
                     /\ registry[c] = NoEntry
            /\ (config[c].present /\ config[c].printer_type = "")
                  => /\ startOutcome[c] = "started"
                     /\ \A t \in TasksOf(c) : taskClient[t] = "OctoPrintClient"

\* C5: the loop counts cycles exactly. Every poll attempt is followed by one
\* interval sleep, and ends either in one push or in one caught failure; a
\* loop that has ended made exactly as many poll attempts as it entered
\* sleeps (none when the stop signal was set before the first iteration), and
\* only the stop signal ends it, however many cycles failed.
C5_CyclesCounted ==
    \A t \in Created :
        /\ polls[t] = sleeps[t] + InFlight(t)
        /\ pushes[t] + fails[t] = sleeps[t]
        /\ pc[t] = "done" => (stopSet[taskEvent[t]] /\ polls[t] = sleeps[t])
        /\ (pc[t] = "done" /\ sleeps[t] = 0) => (polls[t] = 0 /\ pushes[t] = 0)

C5_Witness ==
    \E t \in Tasks :
        pc[t] = "done" /\ polls[t] = 2 /\ sleeps[t] = 2 /\ fails[t] = 1 /\ pushes[t] = 1

C8_HungPollDelaysOnlyItsLoop ==
    \A t, u \in Tasks :
        (pc[t] = "polling" /\ pc[u] \in {"pushing", "sleeping"} /\ taskCam[u] # taskCam[t])
            => ENABLED LoopStep(u)

Rank(p) ==
    CASE p = "polling" -> 1
      [] p = "pushing" -> 2
      [] p = "sleeping" -> 3
      [] p = "top" -> 4
      [] p = "done" -> 5
      [] OTHER -> 0

\* C9: cancellation is cooperative and bounded. The stop signal is read only
\* at the top of the loop; setting it moves no loop (an in-flight poll is not
\* interrupted); once it is set the loop starts no new poll, pushes only the
\* push already in flight, only moves forward through poll return, push
\* return and sleep return, and, the poll and the sleep returning, ends.
C9_CooperativeCancellation ==
    /\ [][\A t \in Tasks :
            /\ (pc'[t] = "done" /\ pc[t] # "done") => pc[t] = "top"
            /\ stopSet' # stopSet => pc' = pc
            /\ StopSeen(t) =>
                  /\ polls'[t] = polls[t]
                  /\ Rank(pc'[t]) >= Rank(pc[t])
                  /\ pushes'[t] # pushes[t] => pc[t] = "pushing"]_vars
    /\ \A t \in Tasks : StopSeen(t) ~> (pc[t] = "done")

C9_Witness == \E t \in Tasks : pc[t] = "polling" /\ StopSeen(t)

\* C10: start_printer_state_polling is fire-and-forget. A successful start
\* makes exactly one add_polling_task call, pairing the new task with the stop
\* signal its loop observes, and returns before the loop has polled; no later
\* poll or push failure changes the caller's outcome, the registry or the
\* number of registrations.
C10_FireAndForget ==
    /\ [](/\ addCalls = Cardinality(Created)
          /\ \A c \in Cams :
                startOutcome[c] = "started" =>
                    /\ registry[c].task \in TasksOf(c)
                    /\ registry[c].stop_event = taskEvent[registry[c].task])
    /\ [][/\ addCalls' # addCalls =>
                (addCalls' = addCalls + 1 /\ polls' = polls /\ pushes' = pushes /\ fails' = fails)
          /\ fails' # fails =>
                (startOutcome' = startOutcome /\ registry' = registry /\ addCalls' = addCalls)]_vars

C10_Witness ==
    \E t \in Tasks :
        /\ fails[t] >= 1
        /\ startOutcome[taskCam[t]] = "started"
        /\ registry[taskCam[t]] = PollingTask(t, taskEvent[t])

\* ============================================================ suspend claims
JobFetched == susp.called /\ susp.job_state \in JobStates

\* C2: suspend_print_job never raises past its boundary: every call returns a
\* boolean, and a failure in any step (no config, a printer_type that is no
\* registered type, a failed job fetch, a failed command) returns False.
C2_SuspendNeverRaises ==
    susp.called =>
        /\ susp.result \in {"True", "False"}
        /\ (\/ ~config[susp.camera].present
            \/ config[susp.camera].printer_type \notin PrinterTypeMembers \cup {""}
            \/ susp.job_state = "fetch_raised"
            \/ (susp.cancel_calls + susp.pause_calls > 0 /\ susp.cmd = "raise"))
              => susp.result = "False"

\* C3 as stated: with job info fetched, a state that is not "Printing" or
\* "PRINTING" returns True and sends no command; a printing state sends
\* cancel_job once for CANCEL_PRINT, pause_job once for PAUSE_PRINT, nothing
\* for any other action, and returns True in all three cases.
C3_Original ==
    JobFetched =>
        IF susp.job_state \notin {"Printing", "PRINTING"}
        THEN susp.result = "True" /\ susp.cancel_calls = 0 /\ susp.pause_calls = 0
        ELSE /\ susp.result = "True"
             /\ susp.cancel_calls = (IF susp.action = "CANCEL_PRINT" THEN 1 ELSE 0)
             /\ susp.pause_calls = (IF susp.action = "PAUSE_PRINT" THEN 1 ELSE 0)

\* C3 amended: as stated, except that when the command sent (cancel_job or
\* pause_job) raises, the call has still sent exactly that one command and
\* returns False; it returns True when the command does not raise and when
\* no command is sent.
C3_CommandOnlyWhenPrinting ==
    JobFetched =>
        IF susp.job_state \notin {"Printing", "PRINTING"}
        THEN susp.result = "True" /\ susp.cancel_calls = 0 /\ susp.pause_calls = 0
        ELSE /\ susp.cancel_calls = (IF susp.action = "CANCEL_PRINT" THEN 1 ELSE 0)
             /\ susp.pause_calls = (IF susp.action = "PAUSE_PRINT" THEN 1 ELSE 0)
             /\ susp.result = (IF susp.cancel_calls + susp.pause_calls = 1 /\ susp.cmd = "raise"
                               THEN "False" ELSE "True")

C3_Witness ==
    /\ JobFetched
    /\ susp.job_state = "PRINTING"
    /\ susp.action = "CANCEL_PRINT"
    /\ susp.cancel_calls = 1
    /\ susp.pause_calls = 0
    /\ susp.result = "True"

\* ============================================================= client claims
\* C1: get_printer_state never raises, whatever the three upstream requests
\* do, and whenever the job-info fetch fails the returned state has
\* jobInfoResponse None and still carries a temperatureReading.
C1_GetPrinterStateNeverRaises ==
    call.method = "get_printer_state" =>
        /\ ~call.result.raised
        /\ get_job_info(statusResp, jobResp).raised =>
              /\ call.result.jobInfoResponse = None
              /\ call.result.temperatureReading # None

TempsOf(resp) == get_printer_temperatures(resp).temps

\* C7 as stated: nozzle_and_bed_temps returns the all-zero mapping if and
\* only if get_printer_temperatures returns an empty mapping.
C7_Original ==
    (call.method = "nozzle_and_bed_temps" /\ ~call.result.raised) =>
        (call.result.value = ZeroTemps <=> TempsOf(printerResp) = EmptyTemps)

ZeroOrMissing(entry) == entry.kind # "reading" \/ (entry.actual = 0 /\ entry.target = 0)

\* C7 amended: nozzle_and_bed_temps returns the all-zero mapping if
\* get_printer_temperatures returns an empty mapping; the converse does not
\* hold: the result is all-zero exactly when each of "tool0" and "bed" is
\* missing from the mapping or reads actual 0 and target 0, and otherwise it
\* carries the readings of "tool0" and "bed".
C7_ZeroWhenEmpty ==
    (call.method = "nozzle_and_bed_temps" /\ ~call.result.raised) =>
        LET temps == TempsOf(printerResp)
            v == call.result.value
        IN /\ temps = EmptyTemps => v = ZeroTemps
           /\ v = ZeroTemps <=> (ZeroOrMissing(temps["tool0"]) /\ ZeroOrMissing(temps["bed"]))
           /\ temps["tool0"].kind = "reading" =>
                 (v.nozzle_actual = temps["tool0"].actual /\ v.nozzle_target = temps["tool0"].target)
           /\ temps["bed"].kind = "reading" =>
                 (v.bed_actual = temps["bed"].actual /\ v.bed_target = temps["bed"].target)

C7_Witness ==
    /\ call.method = "nozzle_and_bed_temps"
    /\ ~call.result.raised
    /\ printerResp.status_code = HTTP_CONFLICT
    /\ TempsOf(printerResp) = EmptyTemps
    /\ call.result.value = ZeroTemps

====
